---- MODULE Spec2Model ----
(***************************************************************************)
(* A model of fin_stats/main.py: the four ratio functions, the four year-  *)
(* aligned table builders and the driver app().                            *)
(*                                                                         *)
(* pandas values are IEEE doubles; they are modelled as exact rationals    *)
(* extended with NaN and the two infinities, with the IEEE rules for       *)
(* division by zero (x/0 = inf, 0/0 = NaN, x/inf = 0).                     *)
(***************************************************************************)
EXTENDS Integers, Sequences, FiniteSets, TLC

\* ------------------------------------------------------------------------
\* Bounds and program constants
\* ------------------------------------------------------------------------

\* the longest batch of tickers given to app()
MaxBatch == 3

\* the literal 365 of cash_conversion_cycle
DaysInYear == 365

\* rolling(window=2)
Window == 2

\* ------------------------------------------------------------------------
\* Floating point values
\* ------------------------------------------------------------------------

NaN == [k |-> "nan", n |-> 0, d |-> 0]

Inf(s) == [k |-> "inf", n |-> s, d |-> 0]

Abs(x) == IF x < 0 THEN -x ELSE x

Sign(x) == IF x < 0 THEN -1 ELSE 1

RECURSIVE Gcd(_, _)
Gcd(a, b) == IF b = 0 THEN a ELSE Gcd(b, a % b)

\* the finite value a/b (b # 0), in lowest terms with a positive denominator
Fin(a, b) ==
    LET g == Gcd(Abs(a), Abs(b))
        s == Sign(b)
    IN  [k |-> "fin", n |-> (s * a) \div g, d |-> Abs(b) \div g]

Num(a) == Fin(a, 1)

IsFinite(x) == x.k = "fin"

\* the sign of a float, a zero counting as positive
FSign(x) == IF x.n < 0 THEN -1 ELSE 1

FNeg(x) ==
    CASE x.k = "nan" -> NaN
      [] x.k = "inf" -> Inf(-x.n)
      [] OTHER       -> Fin(-x.n, x.d)

FAdd(x, y) ==
    CASE x.k = "nan" \/ y.k = "nan" -> NaN
      [] x.k = "inf" /\ y.k = "inf" -> IF x.n = y.n THEN x ELSE NaN
      [] x.k = "inf"                -> x
      [] y.k = "inf"                -> y
      [] OTHER                      -> Fin(x.n * y.d + y.n * x.d, x.d * y.d)

FSub(x, y) == FAdd(x, FNeg(y))

FMul(x, y) ==
    CASE x.k = "nan" \/ y.k = "nan" -> NaN
      [] x.k = "inf" \/ y.k = "inf" ->
            IF (x.k = "fin" /\ x.n = 0) \/ (y.k = "fin" /\ y.n = 0)
            THEN NaN
            ELSE Inf(FSign(x) * FSign(y))
      [] OTHER                      -> Fin(x.n * y.n, x.d * y.d)

\* numpy true division: no exception, x/0 is an infinity and 0/0 is NaN
FDiv(x, y) ==
    CASE x.k = "nan" \/ y.k = "nan" -> NaN
      [] x.k = "inf" /\ y.k = "inf" -> NaN
      [] x.k = "inf"                -> Inf(FSign(x) * FSign(y))
      [] y.k = "inf"                -> Num(0)
      [] y.n = 0                    -> IF x.n = 0 THEN NaN ELSE Inf(FSign(x))
      [] OTHER                      -> Fin(x.n * y.d, x.d * y.n)

\* ------------------------------------------------------------------------
\* Series, statement tables and the stocks of the batch
\* ------------------------------------------------------------------------

\* A Series is a sequence of [date, val] entries in the order of its index.
\* Every operation builds its result once (<<>> \o ... makes TLC hold the
\* sequence itself rather than the expression that computes it).

\* a period end date is the integer yyyymm; Timestamp.year
YearOf(date) == date \div 100

\* Series.iloc[::-1]
Reversed(s) == <<>> \o [i \in 1..Len(s) |-> s[Len(s) + 1 - i]]

\* DataFrame.loc[name]: the row of a line item as a date-indexed Series, in the
\* storage order of the table's columns
Loc(table, name) ==
    <<>> \o [i \in 1..Len(table.columns) |->
        [date |-> table.columns[i], val |-> table.rows[name][i]]]

\* a KeyError is raised by DataFrame.loc[name] when the row is absent
HasItem(table, name) == name \in DOMAIN table.rows

\* Series.index
Index(s) == <<>> \o [i \in 1..Len(s) |-> s[i].date]

\* a set of dates as an ascending sequence
RECURSIVE Ascending(_)
Ascending(dates) ==
    IF dates = {}
    THEN <<>>
    ELSE LET first == CHOOSE d \in dates : \A e \in dates : d <= e
         IN  <<first>> \o Ascending(dates \ {first})

\* the index of the result of a binary operation: the operands' own index when
\* they have the same one, and otherwise the sorted union of the two (the outer
\* join of pandas' alignment)
JoinIndex(a, b) ==
    IF Index(a) = Index(b)
    THEN Index(a)
    ELSE Ascending({a[i].date : i \in 1..Len(a)} \cup {b[i].date : i \in 1..Len(b)})

\* the value of s at a date of the joined index: NaN where s has no such date
Reindexed(s, date) ==
    IF \E i \in 1..Len(s) : s[i].date = date
    THEN s[CHOOSE i \in 1..Len(s) : s[i].date = date].val
    ELSE NaN

\* Series / Series
SDiv(a, b) ==
    LET index == JoinIndex(a, b)
    IN  <<>> \o [i \in 1..Len(index) |->
            [date |-> index[i],
             val  |-> FDiv(Reindexed(a, index[i]), Reindexed(b, index[i]))]]

\* Series + Series
SAdd(a, b) ==
    LET index == JoinIndex(a, b)
    IN  <<>> \o [i \in 1..Len(index) |->
            [date |-> index[i],
             val  |-> FAdd(Reindexed(a, index[i]), Reindexed(b, index[i]))]]

\* Series - Series
SSub(a, b) ==
    LET index == JoinIndex(a, b)
    IN  <<>> \o [i \in 1..Len(index) |->
            [date |-> index[i],
             val  |-> FSub(Reindexed(a, index[i]), Reindexed(b, index[i]))]]

\* Series * Series
SMul(a, b) ==
    LET index == JoinIndex(a, b)
    IN  <<>> \o [i \in 1..Len(index) |->
            [date |-> index[i],
             val  |-> FMul(Reindexed(a, index[i]), Reindexed(b, index[i]))]]

\* scalar / Series
ScalarDiv(c, s) ==
    <<>> \o [i \in 1..Len(s) |-> [date |-> s[i].date, val |-> FDiv(Num(c), s[i].val)]]

\* Series.rolling(window=2).mean(): positional; NaN until the window is full
RollingMean(s) ==
    <<>> \o [i \in 1..Len(s) |->
        [date |-> s[i].date,
         val  |-> IF i < Window
                  THEN NaN
                  ELSE FDiv(FAdd(s[i - 1].val, s[i].val), Num(Window))]]

FinancialItems ==
    {"Net Income", "Total Revenue", "Cost Of Revenue", "Ebit", "Interest Expense"}

BalanceItems ==
    {"Total Assets", "Total Stockholder Equity", "Inventory", "Net Receivables",
     "Accounts Payable", "Total Liab", "Total Current Assets",
     "Total Current Liabilities", "Cash", "Short Term Investments"}

ItemBase ==
    [item \in FinancialItems \cup BalanceItems |->
        CASE item = "Net Income"                -> 2
          [] item = "Total Revenue"             -> 10
          [] item = "Cost Of Revenue"           -> 5
          [] item = "Ebit"                      -> 3
          [] item = "Interest Expense"          -> 1
          [] item = "Total Assets"              -> 20
          [] item = "Total Stockholder Equity"  -> 8
          [] item = "Inventory"                 -> 2
          [] item = "Net Receivables"           -> 4
          [] item = "Accounts Payable"          -> 3
          [] item = "Total Liab"                -> 12
          [] item = "Total Current Assets"      -> 9
          [] item = "Total Current Liabilities" -> 4
          [] item = "Cash"                      -> 1
          [] item = "Short Term Investments"    -> 1]

ItemStep ==
    [item \in FinancialItems \cup BalanceItems |->
        CASE item \in {"Total Revenue", "Total Assets", "Total Current Assets"} -> 3
          [] item \in {"Cost Of Revenue", "Total Liab", "Net Receivables"}      -> 2
          [] OTHER                                                              -> 1]

\* the value a company of size g reports for a line item in its k-th period
ItemValue(item, k, g) == Num(ItemBase[item] * g + ItemStep[item] * k)

\* the columns of a statement table as the repository stores them: newest
\* first (as yfinance does) or oldest first
Stored(chronological, newestFirst) ==
    IF newestFirst
    THEN <<>> \o [i \in 1..Len(chronological) |->
                    chronological[Len(chronological) + 1 - i]]
    ELSE chronological

\* one statement table: its period columns in storage order and one row per
\* line item
Statement(items, dates, newestFirst, g, zeroed) ==
    [columns |-> Stored(dates, newestFirst),
     rows    |->
        [item \in items |->
            Stored(<<>> \o [k \in 1..Len(dates) |->
                        IF <<item, k>> \in zeroed
                        THEN Num(0)
                        ELSE ItemValue(item, k, g)],
                   newestFirst)]]

\* yf.Ticker(t): the ticker, its two statement tables and its market snapshot
Ticker(t, incomeDates, balanceDates, newestFirst, g, zeroed, missing, info) ==
    [ticker        |-> t,
     financials    |->
        Statement(FinancialItems \ missing, incomeDates, newestFirst, g, zeroed),
     balance_sheet |->
        Statement(BalanceItems \ missing, balanceDates, newestFirst, g, zeroed),
     info          |-> info]

Tickers == {"AAA", "BBB", "CCC", "DDD", "EEE", "FFF", "HHH", "III"}

\* what the statement repository holds for each ticker:
\*   AAA  complete, a short first period (two period ends in 2021)
\*   BBB  an earlier fiscal calendar, and a balance sheet one period ahead of
\*        the income statement
\*   CCC  no inventory at all, and no cost of revenue in its second period
\*   DDD  no "Inventory" line item
\*   EEE  no "Ebit" line item
\*   FFF  as AAA, with the period columns stored oldest first
\*   HHH  no "Net Income" line item
\*   III  no forwardPE in the market snapshot
Market ==
    [t \in Tickers |->
        CASE t = "AAA" -> Ticker(t, <<202101, 202112, 202212>>,
                                 <<202101, 202112, 202212>>, TRUE, 1, {}, {},
                                 [forwardPE |-> Num(15)])
          [] t = "BBB" -> Ticker(t, <<201912, 202012, 202112>>,
                                 <<201912, 202012, 202112, 202212>>, TRUE, 2, {}, {},
                                 [forwardPE |-> Num(22)])
          [] t = "CCC" -> Ticker(t, <<202012, 202112, 202212>>,
                                 <<202012, 202112, 202212>>, TRUE, 3,
                                 {<<"Inventory", 1>>, <<"Inventory", 2>>,
                                  <<"Inventory", 3>>, <<"Cost Of Revenue", 2>>},
                                 {}, [forwardPE |-> Num(9)])
          [] t = "DDD" -> Ticker(t, <<202012, 202112, 202212>>,
                                 <<202012, 202112, 202212>>, TRUE, 4, {},
                                 {"Inventory"}, [forwardPE |-> Num(30)])
          [] t = "EEE" -> Ticker(t, <<202012, 202112, 202212>>,
                                 <<202012, 202112, 202212>>, TRUE, 5, {},
                                 {"Ebit"}, [forwardPE |-> Num(12)])
          [] t = "FFF" -> Ticker(t, <<202101, 202112, 202212>>,
                                 <<202101, 202112, 202212>>, FALSE, 6, {}, {},
                                 [forwardPE |-> Num(18)])
          [] t = "HHH" -> Ticker(t, <<202012, 202112, 202212>>,
                                 <<202012, 202112, 202212>>, TRUE, 8, {},
                                 {"Net Income"}, [forwardPE |-> Num(25)])
          [] OTHER     -> Ticker(t, <<202012, 202112, 202212>>,
                                 <<202012, 202112, 202212>>, TRUE, 9, {}, {},
                                 [trailingPE |-> Num(14)])]

\* ------------------------------------------------------------------------
\* The four ratio functions
\* ------------------------------------------------------------------------

\* the line items a function reads with .loc: any absent one is a KeyError
BangForBuckRaises(stock) ==
    \/ ~HasItem(stock.financials, "Net Income")
    \/ ~HasItem(stock.financials, "Total Revenue")
    \/ ~HasItem(stock.balance_sheet, "Total Assets")
    \/ ~HasItem(stock.balance_sheet, "Total Stockholder Equity")

bang_for_buck(stock) ==
    LET fin(name) == Reversed(Loc(stock.financials, name))
        bal(name) == Reversed(Loc(stock.balance_sheet, name))
        profitability == SDiv(fin("Net Income"), fin("Total Revenue"))
        asset_turn_over ==
            SDiv(fin("Total Revenue"), RollingMean(bal("Total Assets")))
        financial_leverage ==
            SDiv(RollingMean(bal("Total Assets")),
                 RollingMean(bal("Total Stockholder Equity")))
    IN  [name               |-> stock.ticker,
         profitability      |-> profitability,
         asset_turn_over    |-> asset_turn_over,
         financial_leverage |-> financial_leverage,
         return_on_equity   |->
            SMul(SMul(profitability, asset_turn_over), financial_leverage)]

\* CashConversionCycleCaught if a division by zero raised as it does on plain
\* Python numbers: a zero average of a balance item is caught as well
CashConversionCycleCaughtZeroDivision(stock) ==
    \/ ~HasItem(stock.financials, "Cost Of Revenue")
    \/ ~HasItem(stock.balance_sheet, "Inventory")
    \/ ~HasItem(stock.financials, "Total Revenue")
    \/ ~HasItem(stock.balance_sheet, "Net Receivables")
    \/ ~HasItem(stock.balance_sheet, "Accounts Payable")
    \/ \E item \in {"Inventory", "Net Receivables", "Accounts Payable"} :
        \E i \in 1..Len(stock.balance_sheet.columns) :
            RollingMean(Reversed(Loc(stock.balance_sheet, item)))[i].val = Num(0)

\* what makes the try block of cash_conversion_cycle raise: an absent line item
\* (division by zero does not raise in pandas)
CashConversionCycleCaught(stock) ==
    \/ ~HasItem(stock.financials, "Cost Of Revenue")
    \/ ~HasItem(stock.balance_sheet, "Inventory")
    \/ ~HasItem(stock.financials, "Total Revenue")
    \/ ~HasItem(stock.balance_sheet, "Net Receivables")
    \/ ~HasItem(stock.balance_sheet, "Accounts Payable")

\* 365 / (flow / balance.rolling(window=2).mean())
TurnOverDays(stock, flow, balance) ==
    ScalarDiv(DaysInYear,
              SDiv(Reversed(Loc(stock.financials, flow)),
                   RollingMean(Reversed(Loc(stock.balance_sheet, balance)))))

\* the scalar 0 that replaces the series when the try block raises
DegradedZero == [scalar |-> TRUE, series |-> <<>>]

cash_conversion_cycle(stock) ==
    IF CashConversionCycleCaught(stock)
    THEN [name |-> stock.ticker, cash_conversion_cycle |-> DegradedZero]
    ELSE [name |-> stock.ticker,
          cash_conversion_cycle |->
            [scalar |-> FALSE,
             series |->
                SSub(SAdd(TurnOverDays(stock, "Cost Of Revenue", "Inventory"),
                          TurnOverDays(stock, "Total Revenue", "Net Receivables")),
                     TurnOverDays(stock, "Cost Of Revenue", "Accounts Payable"))]]

LiquidityAndSolvencyRaises(stock) ==
    \/ ~HasItem(stock.balance_sheet, "Total Liab")
    \/ ~HasItem(stock.balance_sheet, "Total Stockholder Equity")
    \/ ~HasItem(stock.financials, "Ebit")
    \/ ~HasItem(stock.financials, "Interest Expense")
    \/ ~HasItem(stock.balance_sheet, "Total Current Assets")
    \/ ~HasItem(stock.balance_sheet, "Total Current Liabilities")
    \/ ~HasItem(stock.balance_sheet, "Cash")
    \/ ~HasItem(stock.balance_sheet, "Short Term Investments")
    \/ ~HasItem(stock.balance_sheet, "Net Receivables")

liquidity_and_solvency(stock) ==
    LET fin(name) == Reversed(Loc(stock.financials, name))
        bal(name) == Reversed(Loc(stock.balance_sheet, name))
    IN  [name |-> stock.ticker,
         liquidity |->
            [current_ratio |->
                SDiv(bal("Total Current Assets"), bal("Total Current Liabilities")),
             quick_ratio   |->
                SDiv(SAdd(SAdd(bal("Cash"), bal("Short Term Investments")),
                          bal("Net Receivables")),
                     bal("Total Current Liabilities"))],
         solvency |->
            [liabilities_to_equity   |->
                SDiv(bal("Total Liab"), bal("Total Stockholder Equity")),
             interest_coverage_ratio |->
                SDiv(fin("Ebit"), fin("Interest Expense"))]]

\* stock.info['forwardPE'] is a KeyError when the snapshot has no such key
EquityAnalysisRaises(stock) == "forwardPE" \notin DOMAIN stock.info

equity_analysis(stock) == [name |-> stock.ticker, pe |-> stock.info.forwardPE]

\* ------------------------------------------------------------------------
\* Year alignment and tabulation
\* ------------------------------------------------------------------------

\* year is None
None == <<>>

\* str(a) for a >= 0, as the sequence of its decimal digits
RECURSIVE Str(_)
Str(a) == IF a < 10 THEN <<a>> ELSE Append(Str(a \div 10), a % 10)

\* the calendar year a string of digits names in .loc[year]
RECURSIVE ParseYear(_)
ParseYear(digits) ==
    IF Len(digits) = 0
    THEN 0
    ELSE 10 * ParseYear(SubSeq(digits, 1, Len(digits) - 1)) + digits[Len(digits)]

\* series.index.max()
IndexMax(series) ==
    CHOOSE d \in {series[i].date : i \in 1..Len(series)} :
        \A i \in 1..Len(series) : series[i].date <= d

\* ResolveYear without its test of year: resolved again at every company
ReResolveYear(year, series) == Str(YearOf(IndexMax(series)))

\* if year is None: year = str(series.index.max().year)
ResolveYear(year, series) ==
    IF year = None THEN Str(YearOf(IndexMax(series))) ELSE year

\* series.loc[year]: the periods of that calendar year, in the series' order
LocYear(series, year) ==
    SelectSeq(series, LAMBDA e : YearOf(e.date) = ParseYear(year))

\* series.loc[year].values[0] raises (KeyError or IndexError, both LookupError)
\* when no period of the series falls in the year
LookupRaises(series, year) == Len(LocYear(series, year)) = 0

\* series.loc[year].values[0]
FirstValue(series, year) == LocYear(series, year)[1].val

\* p[key] = value on a dict, which keeps its keys in insertion order
DictSet(p, key, value) ==
    IF \E i \in 1..Len(p) : p[i].key = key
    THEN [i \in 1..Len(p) |-> IF p[i].key = key THEN [key |-> key, value |-> value]
                                                ELSE p[i]]
    ELSE Append(p, [key |-> key, value |-> value])

\* pd.DataFrame(p, index=i).transpose(): one row per key of p, one column per
\* name of i
DataFrame(p, i) ==
    [produced |-> TRUE,
     index    |-> [r \in 1..Len(p) |-> p[r].key],
     columns  |-> i,
     data     |-> [r \in 1..Len(p) |-> p[r].value]]

\* a table variable that was never assigned
NotProduced == [produced |-> FALSE, index |-> <<>>, columns |-> <<>>, data |-> <<>>]

BangForBuckColumns ==
    <<"profitability", "asset_turn_over", "financial_leverage", "return_on_equity">>

CashConversionCycleColumns == <<"cash_conversion_cycle">>

LiquidityAndSolvencyColumns ==
    <<"current_ratio", "quick_ratio", "liabilities_to_equity",
      "interest_coverage_ratio">>

EquityAnalysisColumns == <<"PE">>

\* BangForBuckRow with two of its entries in each other's place
BangForBuckRowSwapped(s, year) ==
    <<FirstValue(s.profitability, year), FirstValue(s.financial_leverage, year),
      FirstValue(s.asset_turn_over, year), FirstValue(s.return_on_equity, year)>>

\* the list the body of bang_for_buck_df's loop stores for s
BangForBuckRow(s, year) ==
    <<FirstValue(s.profitability, year), FirstValue(s.asset_turn_over, year),
      FirstValue(s.financial_leverage, year), FirstValue(s.return_on_equity, year)>>

BangForBuckRowRaises(s, year) ==
    \/ LookupRaises(s.profitability, year)
    \/ LookupRaises(s.asset_turn_over, year)
    \/ LookupRaises(s.financial_leverage, year)
    \/ LookupRaises(s.return_on_equity, year)

\* the list the body of liquidity_and_solvency_df's loop stores for s
LiquidityAndSolvencyRow(s, year) ==
    <<FirstValue(s.liquidity.current_ratio, year),
      FirstValue(s.liquidity.quick_ratio, year),
      FirstValue(s.solvency.liabilities_to_equity, year),
      FirstValue(s.solvency.interest_coverage_ratio, year)>>

LiquidityAndSolvencyRowRaises(s, year) ==
    \/ LookupRaises(s.liquidity.current_ratio, year)
    \/ LookupRaises(s.liquidity.quick_ratio, year)
    \/ LookupRaises(s.solvency.liabilities_to_equity, year)
    \/ LookupRaises(s.solvency.interest_coverage_ratio, year)

\* the body of cash_conversion_cycle_df's loop raises: the scalar 0 of a
\* degraded company has neither .index nor .loc (AttributeError), or the year
\* has no period in the series
CashConversionCycleRowRaises(s, year) ==
    \/ s.cash_conversion_cycle.scalar
    \/ LookupRaises(s.cash_conversion_cycle.series,
                    ResolveYear(year, s.cash_conversion_cycle.series))

\* the scalar the body of cash_conversion_cycle_df's loop stores for s
CashConversionCycleRow(s, year) ==
    FirstValue(s.cash_conversion_cycle.series, year)

\* the whole loop of equity_analysis_df
RECURSIVE EquityAnalysisDict(_)
EquityAnalysisDict(stocks) ==
    IF Len(stocks) = 0
    THEN <<>>
    ELSE DictSet(EquityAnalysisDict(SubSeq(stocks, 1, Len(stocks) - 1)),
                 stocks[Len(stocks)].name, stocks[Len(stocks)].pe)

\* ------------------------------------------------------------------------
\* app()
\* ------------------------------------------------------------------------

VARIABLES
    tickers,                      \* args.analyse_stocks_financial_statements, split
    args_year,                    \* args.year
    pc,                           \* the statement app() is at
    n,                            \* the position of the running for loop
    bank_for_buck_res,
    cash_conversion_cycle_res,
    liquidity_and_solvency_res,
    equity_analysis_res,
    year,                         \* the parameter year of the running table builder
    p,                            \* the dict p of the running table builder
    b_df,
    c_df,
    l_df,
    e_df,
    raised                        \* the exception that left app(), if any

vars ==
    <<tickers, args_year, pc, n, bank_for_buck_res, cash_conversion_cycle_res,
      liquidity_and_solvency_res, equity_analysis_res, year, p, b_df, c_df, l_df,
      e_df, raised>>

\* the batches of distinct tickers, of 1 to MaxBatch tickers
Batches ==
    {b \in UNION {[1..k -> Tickers] : k \in 1..MaxBatch} :
        \A i, j \in 1..Len(b) : i # j => b[i] # b[j]}

\* --year: absent, or a calendar year
YearArgs == {None, Str(2019), Str(2021), Str(2022)}

NoException == [type |-> "none", from |-> "none"]

\* stocks[k] = yf.Ticker(tickers[k])
stocks == [k \in 1..Len(tickers) |-> Market[tickers[k]]]

Init ==
    /\ tickers \in Batches
    /\ args_year \in YearArgs
    /\ pc = "bang_for_buck"
    /\ n = 1
    /\ bank_for_buck_res = <<>>
    /\ cash_conversion_cycle_res = <<>>
    /\ liquidity_and_solvency_res = <<>>
    /\ equity_analysis_res = <<>>
    /\ year = None
    /\ p = <<>>
    /\ b_df = NotProduced
    /\ c_df = NotProduced
    /\ l_df = NotProduced
    /\ e_df = NotProduced
    /\ raised = NoException

\* an exception leaves app(): nothing after the raising statement runs
Raise(type, from) ==
    /\ pc' = "raised"
    /\ raised' = [type |-> type, from |-> from]

\* bank_for_buck_res.append(bang_for_buck(stock))
BangForBuck ==
    /\ pc = "bang_for_buck"
    /\ ~BangForBuckRaises(stocks[n])
    /\ bank_for_buck_res' = Append(bank_for_buck_res, bang_for_buck(stocks[n]))
    /\ pc' = "cash_conversion_cycle"
    /\ UNCHANGED <<tickers, args_year, n, cash_conversion_cycle_res,
                   liquidity_and_solvency_res, equity_analysis_res, year, p,
                   b_df, c_df, l_df, e_df, raised>>

BangForBuckRaise ==
    /\ pc = "bang_for_buck"
    /\ BangForBuckRaises(stocks[n])
    /\ Raise("KeyError", "bang_for_buck")
    /\ UNCHANGED <<tickers, args_year, n, bank_for_buck_res,
                   cash_conversion_cycle_res, liquidity_and_solvency_res,
                   equity_analysis_res, year, p, b_df, c_df, l_df, e_df>>

\* cash_conversion_cycle_res.append(cash_conversion_cycle(stock))
CashConversionCycle ==
    /\ pc = "cash_conversion_cycle"
    /\ cash_conversion_cycle_res' =
            Append(cash_conversion_cycle_res, cash_conversion_cycle(stocks[n]))
    /\ pc' = "liquidity_and_solvency"
    /\ UNCHANGED <<tickers, args_year, n, bank_for_buck_res,
                   liquidity_and_solvency_res, equity_analysis_res, year, p,
                   b_df, c_df, l_df, e_df, raised>>

\* liquidity_and_solvency_res.append(liquidity_and_solvency(stock))
LiquidityAndSolvency ==
    /\ pc = "liquidity_and_solvency"
    /\ ~LiquidityAndSolvencyRaises(stocks[n])
    /\ liquidity_and_solvency_res' =
            Append(liquidity_and_solvency_res, liquidity_and_solvency(stocks[n]))
    /\ pc' = "equity_analysis"
    /\ UNCHANGED <<tickers, args_year, n, bank_for_buck_res,
                   cash_conversion_cycle_res, equity_analysis_res, year, p,
                   b_df, c_df, l_df, e_df, raised>>

\* LiquidityAndSolvencyRaise with the error caught as cash_conversion_cycle
\* catches its own: a result without series is appended and the loop goes on
LiquidityAndSolvencyRaiseCaught ==
    /\ pc = "liquidity_and_solvency"
    /\ LiquidityAndSolvencyRaises(stocks[n])
    /\ liquidity_and_solvency_res' =
            Append(liquidity_and_solvency_res,
                   [name      |-> stocks[n].ticker,
                    liquidity |-> [current_ratio |-> <<>>, quick_ratio |-> <<>>],
                    solvency  |-> [liabilities_to_equity   |-> <<>>,
                                   interest_coverage_ratio |-> <<>>]])
    /\ pc' = "equity_analysis"
    /\ UNCHANGED <<tickers, args_year, n, bank_for_buck_res,
                   cash_conversion_cycle_res, equity_analysis_res, year, p,
                   b_df, c_df, l_df, e_df, raised>>

\* the KeyError of an absent line item leaves liquidity_and_solvency and app()
LiquidityAndSolvencyRaise ==
    /\ pc = "liquidity_and_solvency"
    /\ LiquidityAndSolvencyRaises(stocks[n])
    /\ Raise("KeyError", "liquidity_and_solvency")
    /\ UNCHANGED <<tickers, args_year, n, bank_for_buck_res,
                   cash_conversion_cycle_res, liquidity_and_solvency_res,
                   equity_analysis_res, year, p, b_df, c_df, l_df, e_df>>

\* equity_analysis_res.append(equity_analysis(stock)), the end of the loop body:
\* the next stock, or the call of bang_for_buck_df after the last one
EquityAnalysis ==
    /\ pc = "equity_analysis"
    /\ ~EquityAnalysisRaises(stocks[n])
    /\ equity_analysis_res' = Append(equity_analysis_res, equity_analysis(stocks[n]))
    /\ IF n < Len(tickers)
       THEN /\ n' = n + 1
            /\ pc' = "bang_for_buck"
            /\ UNCHANGED <<year, p>>
       ELSE /\ n' = 1
            /\ pc' = "bang_for_buck_df"
            /\ year' = args_year
            /\ p' = <<>>
    /\ UNCHANGED <<tickers, args_year, bank_for_buck_res, cash_conversion_cycle_res,
                   liquidity_and_solvency_res, b_df, c_df, l_df, e_df, raised>>

EquityAnalysisRaise ==
    /\ pc = "equity_analysis"
    /\ EquityAnalysisRaises(stocks[n])
    /\ Raise("KeyError", "equity_analysis")
    /\ UNCHANGED <<tickers, args_year, n, bank_for_buck_res,
                   cash_conversion_cycle_res, liquidity_and_solvency_res,
                   equity_analysis_res, year, p, b_df, c_df, l_df, e_df>>

\* BangForBuckDfIter with the row taken from the first company of the list
\* instead of the company the loop is at
BangForBuckDfIterStale ==
    /\ pc = "bang_for_buck_df"
    /\ n <= Len(bank_for_buck_res)
    /\ LET s == bank_for_buck_res[n]
           y == ResolveYear(year, s.profitability)
       IN  /\ ~BangForBuckRowRaises(s, y)
           /\ year' = y
           /\ p' = DictSet(p, s.name, BangForBuckRow(bank_for_buck_res[1], y))
    /\ n' = n + 1
    /\ UNCHANGED <<tickers, args_year, pc, bank_for_buck_res,
                   cash_conversion_cycle_res, liquidity_and_solvency_res,
                   equity_analysis_res, b_df, c_df, l_df, e_df, raised>>

\* one pass of the loop of bang_for_buck_df
BangForBuckDfIter ==
    /\ pc = "bang_for_buck_df"
    /\ n <= Len(bank_for_buck_res)
    /\ LET s == bank_for_buck_res[n]
           y == ResolveYear(year, s.profitability)
       IN  /\ ~BangForBuckRowRaises(s, y)
           /\ year' = y
           /\ p' = DictSet(p, s.name, BangForBuckRow(s, y))
    /\ n' = n + 1
    /\ UNCHANGED <<tickers, args_year, pc, bank_for_buck_res,
                   cash_conversion_cycle_res, liquidity_and_solvency_res,
                   equity_analysis_res, b_df, c_df, l_df, e_df, raised>>

\* BangForBuckDfRaise with the failed lookups replaced by zeros, as
\* cash_conversion_cycle_df replaces its own
BangForBuckDfRaiseZeroed ==
    /\ pc = "bang_for_buck_df"
    /\ n <= Len(bank_for_buck_res)
    /\ LET s == bank_for_buck_res[n]
           y == ResolveYear(year, s.profitability)
       IN  /\ BangForBuckRowRaises(s, y)
           /\ year' = y
           /\ p' = DictSet(p, s.name, <<Num(0), Num(0), Num(0), Num(0)>>)
    /\ n' = n + 1
    /\ UNCHANGED <<tickers, args_year, pc, bank_for_buck_res,
                   cash_conversion_cycle_res, liquidity_and_solvency_res,
                   equity_analysis_res, b_df, c_df, l_df, e_df, raised>>

\* a lookup of the pass finds no period of the year: the error leaves
\* bang_for_buck_df and app()
BangForBuckDfRaise ==
    /\ pc = "bang_for_buck_df"
    /\ n <= Len(bank_for_buck_res)
    /\ LET s == bank_for_buck_res[n]
           y == ResolveYear(year, s.profitability)
       IN  /\ BangForBuckRowRaises(s, y)
           /\ year' = y
    /\ Raise("LookupError", "bang_for_buck_df")
    /\ UNCHANGED <<tickers, args_year, n, bank_for_buck_res,
                   cash_conversion_cycle_res, liquidity_and_solvency_res,
                   equity_analysis_res, p, b_df, c_df, l_df, e_df>>

\* the loop is over: b_df is returned and cash_conversion_cycle_df is called
BangForBuckDfReturn ==
    /\ pc = "bang_for_buck_df"
    /\ n > Len(bank_for_buck_res)
    /\ b_df' = DataFrame(p, BangForBuckColumns)
    /\ pc' = "cash_conversion_cycle_df"
    /\ n' = 1
    /\ year' = args_year
    /\ p' = <<>>
    /\ UNCHANGED <<tickers, args_year, bank_for_buck_res, cash_conversion_cycle_res,
                   liquidity_and_solvency_res, equity_analysis_res, c_df, l_df,
                   e_df, raised>>

\* one pass of the loop of cash_conversion_cycle_df, inside its try block
CashConversionCycleDfIter ==
    /\ pc = "cash_conversion_cycle_df"
    /\ n <= Len(cash_conversion_cycle_res)
    /\ LET s == cash_conversion_cycle_res[n]
       IN  /\ ~CashConversionCycleRowRaises(s, year)
           /\ year' = ResolveYear(year, s.cash_conversion_cycle.series)
           /\ p' = DictSet(p, s.name, CashConversionCycleRow(s, year'))
    /\ n' = n + 1
    /\ UNCHANGED <<tickers, args_year, pc, bank_for_buck_res,
                   cash_conversion_cycle_res, liquidity_and_solvency_res,
                   equity_analysis_res, b_df, c_df, l_df, e_df, raised>>

\* CashConversionCycleDfExcept with the try block inside the loop: 0 is stored
\* for the company and the loop goes on
CashConversionCycleDfExceptInLoop ==
    /\ pc = "cash_conversion_cycle_df"
    /\ n <= Len(cash_conversion_cycle_res)
    /\ LET s == cash_conversion_cycle_res[n]
       IN  /\ CashConversionCycleRowRaises(s, year)
           /\ p' = DictSet(p, s.name, Num(0))
    /\ n' = n + 1
    /\ UNCHANGED <<tickers, args_year, pc, bank_for_buck_res,
                   cash_conversion_cycle_res, liquidity_and_solvency_res,
                   equity_analysis_res, year, b_df, c_df, l_df, e_df, raised>>

\* the pass raises: the except clause, which is outside the loop, stores 0 for
\* the company the loop was at, and the table built so far is returned
CashConversionCycleDfExcept ==
    /\ pc = "cash_conversion_cycle_df"
    /\ n <= Len(cash_conversion_cycle_res)
    /\ LET s == cash_conversion_cycle_res[n]
       IN  /\ CashConversionCycleRowRaises(s, year)
           /\ c_df' = DataFrame(DictSet(p, s.name, Num(0)),
                                CashConversionCycleColumns)
    /\ pc' = "liquidity_and_solvency_df"
    /\ n' = 1
    /\ year' = args_year
    /\ p' = <<>>
    /\ UNCHANGED <<tickers, args_year, bank_for_buck_res, cash_conversion_cycle_res,
                   liquidity_and_solvency_res, equity_analysis_res, b_df, l_df,
                   e_df, raised>>

\* the loop ended without an exception
CashConversionCycleDfReturn ==
    /\ pc = "cash_conversion_cycle_df"
    /\ n > Len(cash_conversion_cycle_res)
    /\ c_df' = DataFrame(p, CashConversionCycleColumns)
    /\ pc' = "liquidity_and_solvency_df"
    /\ n' = 1
    /\ year' = args_year
    /\ p' = <<>>
    /\ UNCHANGED <<tickers, args_year, bank_for_buck_res, cash_conversion_cycle_res,
                   liquidity_and_solvency_res, equity_analysis_res, b_df, l_df,
                   e_df, raised>>

\* one pass of the loop of liquidity_and_solvency_df
LiquidityAndSolvencyDfIter ==
    /\ pc = "liquidity_and_solvency_df"
    /\ n <= Len(liquidity_and_solvency_res)
    /\ LET s == liquidity_and_solvency_res[n]
           y == ResolveYear(year, s.liquidity.current_ratio)
       IN  /\ ~LiquidityAndSolvencyRowRaises(s, y)
           /\ year' = y
           /\ p' = DictSet(p, s.name, LiquidityAndSolvencyRow(s, y))
    /\ n' = n + 1
    /\ UNCHANGED <<tickers, args_year, pc, bank_for_buck_res,
                   cash_conversion_cycle_res, liquidity_and_solvency_res,
                   equity_analysis_res, b_df, c_df, l_df, e_df, raised>>

LiquidityAndSolvencyDfRaise ==
    /\ pc = "liquidity_and_solvency_df"
    /\ n <= Len(liquidity_and_solvency_res)
    /\ LET s == liquidity_and_solvency_res[n]
           y == ResolveYear(year, s.liquidity.current_ratio)
       IN  /\ LiquidityAndSolvencyRowRaises(s, y)
           /\ year' = y
    /\ Raise("LookupError", "liquidity_and_solvency_df")
    /\ UNCHANGED <<tickers, args_year, n, bank_for_buck_res,
                   cash_conversion_cycle_res, liquidity_and_solvency_res,
                   equity_analysis_res, p, b_df, c_df, l_df, e_df>>

LiquidityAndSolvencyDfReturn ==
    /\ pc = "liquidity_and_solvency_df"
    /\ n > Len(liquidity_and_solvency_res)
    /\ l_df' = DataFrame(p, LiquidityAndSolvencyColumns)
    /\ pc' = "equity_analysis_df"
    /\ n' = 1
    /\ year' = None
    /\ p' = <<>>
    /\ UNCHANGED <<tickers, args_year, bank_for_buck_res, cash_conversion_cycle_res,
                   liquidity_and_solvency_res, equity_analysis_res, b_df, c_df,
                   e_df, raised>>

\* e_df = equity_analysis_df(equity_analysis_res)
EquityAnalysisDf ==
    /\ pc = "equity_analysis_df"
    /\ e_df' = DataFrame(EquityAnalysisDict(equity_analysis_res),
                         EquityAnalysisColumns)
    /\ pc' = "plot"
    /\ UNCHANGED <<tickers, args_year, n, bank_for_buck_res,
                   cash_conversion_cycle_res, liquidity_and_solvency_res,
                   equity_analysis_res, year, p, b_df, c_df, l_df, raised>>

\* plot(b_df, c_df, l_df, e_df), the last statement of app()
Plot ==
    /\ pc = "plot"
    /\ pc' = "done"
    /\ UNCHANGED <<tickers, args_year, n, bank_for_buck_res,
                   cash_conversion_cycle_res, liquidity_and_solvency_res,
                   equity_analysis_res, year, p, b_df, c_df, l_df, e_df, raised>>

Next ==
    \/ BangForBuck
    \/ BangForBuckRaise
    \/ CashConversionCycle
    \/ LiquidityAndSolvency
    \/ LiquidityAndSolvencyRaise
    \/ EquityAnalysis
    \/ EquityAnalysisRaise
    \/ BangForBuckDfIter
    \/ BangForBuckDfRaise
    \/ BangForBuckDfReturn
    \/ CashConversionCycleDfIter
    \/ CashConversionCycleDfExcept
    \/ CashConversionCycleDfReturn
    \/ LiquidityAndSolvencyDfIter
    \/ LiquidityAndSolvencyDfRaise
    \/ LiquidityAndSolvencyDfReturn
    \/ EquityAnalysisDf
    \/ Plot

Spec == Init /\ [][Next]_vars

\* ------------------------------------------------------------------------
\* Properties
\* ------------------------------------------------------------------------

TableBuilders ==
    {"bang_for_buck_df", "cash_conversion_cycle_df", "liquidity_and_solvency_df"}

\* the series of the first company that the running table builder resolves an
\* unset year from
FirstSeries ==
    CASE pc = "bang_for_buck_df" -> bank_for_buck_res[1].profitability
      [] pc = "cash_conversion_cycle_df" ->
            cash_conversion_cycle_res[1].cash_conversion_cycle.series
      [] OTHER -> liquidity_and_solvency_res[1].liquidity.current_ratio

C1_ResolvedAtFirst ==
    (pc \in TableBuilders /\ args_year = None) =>
        IF n = 1
        THEN year = None
        ELSE year = Str(YearOf(IndexMax(FirstSeries)))

C1_NeverReResolved ==
    (pc \in TableBuilders /\ pc' = pc /\ year # None) => year' = year

\* C1: in a table builder called with year unset, the year is unset until the
\* first company has been processed, from then on it is the calendar year of
\* the maximum date of the first company's series, and a resolved year is never
\* assigned again while the builder runs.
C1_YearResolvedOnce == []C1_ResolvedAtFirst /\ [][C1_NeverReResolved]_vars

\* a builder called with year unset is past its second company, whose own
\* series ends in another year than the one resolved from the first company
C1_Witness ==
    /\ pc = "bang_for_buck_df"
    /\ args_year = None
    /\ n = 3
    /\ year = Str(YearOf(IndexMax(bank_for_buck_res[1].profitability)))
    /\ YearOf(IndexMax(bank_for_buck_res[2].profitability)) # ParseYear(year)

\* the year cash_conversion_cycle_df looks every company up in: the explicit
\* one, or the one resolved from the first company
CccTargetYear ==
    IF args_year = None
    THEN Str(YearOf(IndexMax(
            cash_conversion_cycle_res[1].cash_conversion_cycle.series)))
    ELSE args_year

\* the k-th company's cash-conversion computation or alignment fails
CccFails(k) ==
    \/ cash_conversion_cycle_res[k].cash_conversion_cycle.scalar
    \/ LookupRaises(cash_conversion_cycle_res[k].cash_conversion_cycle.series,
                    CccTargetYear)

\* the k-th company's year-aligned cash-conversion value
CccAligned(k) ==
    FirstValue(cash_conversion_cycle_res[k].cash_conversion_cycle.series,
               CccTargetYear)

\* the position of the first failing company from k on, 0 when there is none
RECURSIVE CccFirstFailure(_)
CccFirstFailure(k) ==
    IF k > Len(cash_conversion_cycle_res)
    THEN 0
    ELSE IF CccFails(k) THEN k ELSE CccFirstFailure(k + 1)

\* C2: the table of cash_conversion_cycle_df has one row for every supplied
\* company, in which a company that failed has 0 and every other company its
\* year-aligned value.
C2_RowForEveryCompany ==
    c_df.produced =>
        /\ c_df.index = tickers
        /\ \A k \in 1..Len(tickers) :
                c_df.data[k] = IF CccFails(k) THEN Num(0) ELSE CccAligned(k)

\* C3: when one ratio family fails in app(), the comparison tables of the
\* other three families are produced.
C3_OtherFamiliesProduced ==
    pc = "raised" =>
        /\ raised.from \notin {"bang_for_buck", "bang_for_buck_df"} => b_df.produced
        /\ c_df.produced
        /\ raised.from \notin {"liquidity_and_solvency", "liquidity_and_solvency_df"}
                => l_df.produced
        /\ raised.from # "equity_analysis" => e_df.produced

\* C10: cash_conversion_cycle_df never raises, and its table is the prefix of
\* the batch that ends at the first failing company: the companies before it
\* have their year-aligned values, it has 0, and no later company has a row;
\* with no failing company the table holds the whole batch.
C10_TableIsPrefix ==
    /\ raised.from # "cash_conversion_cycle_df"
    /\ (\/ pc \in {"liquidity_and_solvency_df", "equity_analysis_df", "plot", "done"}
        \/ raised.from = "liquidity_and_solvency_df") => c_df.produced
    /\ c_df.produced =>
        LET k    == CccFirstFailure(1)
            rows == IF k = 0 THEN Len(tickers) ELSE k
        IN  /\ c_df.index = SubSeq(tickers, 1, rows)
            /\ c_df.columns = <<"cash_conversion_cycle">>
            /\ \A r \in 1..rows :
                    c_df.data[r] = IF r = k THEN Num(0) ELSE CccAligned(r)

\* the table was cut at a failing company that has companies on both sides
C10_Witness ==
    /\ c_df.produced
    /\ Len(c_df.index) > 1
    /\ Len(c_df.index) < Len(tickers)
    /\ c_df.data[Len(c_df.index)] = Num(0)
    /\ IsFinite(c_df.data[1])

\* what bang_for_buck makes of each company's own statements
OwnBangForBuck ==
    [t \in {u \in Tickers : ~BangForBuckRaises(Market[u])} |->
        bang_for_buck(Market[t])]

\* what cash_conversion_cycle makes of each company's own statements
OwnCashConversionCycle ==
    [t \in Tickers |-> cash_conversion_cycle(Market[t]).cash_conversion_cycle]

\* what liquidity_and_solvency makes of each company's own statements
OwnLiquidityAndSolvency ==
    [t \in {u \in Tickers : ~LiquidityAndSolvencyRaises(Market[u])} |->
        liquidity_and_solvency(Market[t])]

C6_MissingEbitRaises ==
    \A k \in 1..Len(tickers) :
        ~HasItem(stocks[k].financials, "Ebit") =>
            /\ Len(liquidity_and_solvency_res) < k
            /\ Len(equity_analysis_res) < k
            /\ ~l_df.produced
            /\ pc # "done"
            /\ (/\ Len(cash_conversion_cycle_res) >= k
                /\ pc # "liquidity_and_solvency") =>
                    /\ pc = "raised"
                    /\ raised = [type |-> "KeyError", from |-> "liquidity_and_solvency"]

\* liquidity_and_solvency has raised for a company that comes after another
C6_Witness ==
    /\ pc = "raised"
    /\ raised.from = "liquidity_and_solvency"
    /\ n > 1
    /\ ~HasItem(stocks[n].financials, "Ebit")
    /\ Len(liquidity_and_solvency_res) = n - 1

\* the year bang_for_buck_df looks every company up in
BfbTargetYear ==
    IF args_year = None
    THEN Str(YearOf(IndexMax(bank_for_buck_res[1].profitability)))
    ELSE args_year

\* the year liquidity_and_solvency_df looks every company up in
LasTargetYear ==
    IF args_year = None
    THEN Str(YearOf(IndexMax(liquidity_and_solvency_res[1].liquidity.current_ratio)))
    ELSE args_year

\* C7: bang_for_buck_df and liquidity_and_solvency_df return a table only when
\* every company has a period in the target year; when some company has none
\* the call ends in a lookup error that leaves app() and no table is returned.
C7_MissingYearRaises ==
    /\ b_df.produced =>
        \A k \in 1..Len(bank_for_buck_res) :
            ~BangForBuckRowRaises(bank_for_buck_res[k], BfbTargetYear)
    /\ l_df.produced =>
        \A k \in 1..Len(liquidity_and_solvency_res) :
            ~LiquidityAndSolvencyRowRaises(liquidity_and_solvency_res[k],
                                           LasTargetYear)
    /\ raised.from = "bang_for_buck_df" =>
        /\ pc = "raised"
        /\ raised.type = "LookupError"
        /\ ~b_df.produced
        /\ BangForBuckRowRaises(bank_for_buck_res[n], BfbTargetYear)
    /\ raised.from = "liquidity_and_solvency_df" =>
        /\ pc = "raised"
        /\ raised.type = "LookupError"
        /\ ~l_df.produced
        /\ LiquidityAndSolvencyRowRaises(liquidity_and_solvency_res[n],
                                         LasTargetYear)

\* bang_for_buck_df has raised at a company that comes after companies whose
\* rows it had already collected
C7_Witness ==
    /\ pc = "raised"
    /\ raised.from = "bang_for_buck_df"
    /\ n > 1
    /\ Len(p) = n - 1
    /\ ~b_df.produced

\* the series of a DuPont result that a column of the table is named after
BfbSeries(s, column) ==
    CASE column = "profitability"      -> s.profitability
      [] column = "asset_turn_over"    -> s.asset_turn_over
      [] column = "financial_leverage" -> s.financial_leverage
      [] OTHER                         -> s.return_on_equity

\* the series of a liquidity/solvency result that a column is named after
LasSeries(s, column) ==
    CASE column = "current_ratio"         -> s.liquidity.current_ratio
      [] column = "quick_ratio"           -> s.liquidity.quick_ratio
      [] column = "liabilities_to_equity" -> s.solvency.liabilities_to_equity
      [] OTHER                            -> s.solvency.interest_coverage_ratio

\* C8: the rows of every table that is produced are keyed by ticker, in the
\* order of the batch (all of it; for the cash-conversion table the part of it
\* that the table holds), the columns are in the fixed order of the family,
\* and every cell holds the value, for the target year, of the company's
\* series that the column is named after (a cash-conversion cell of a company
\* whose lookup failed excepted).
C8_RowsAndColumns ==
    /\ b_df.produced =>
        /\ b_df.index = tickers
        /\ b_df.columns = <<"profitability", "asset_turn_over",
                            "financial_leverage", "return_on_equity">>
        /\ \A r \in 1..Len(tickers) : \A c \in 1..4 :
                b_df.data[r][c] =
                    FirstValue(BfbSeries(bank_for_buck_res[r], b_df.columns[c]),
                               BfbTargetYear)
    /\ c_df.produced =>
        /\ c_df.index = SubSeq(tickers, 1, Len(c_df.index))
        /\ c_df.columns = <<"cash_conversion_cycle">>
        /\ \A r \in 1..Len(c_df.index) :
                ~CccFails(r) => c_df.data[r] = CccAligned(r)
    /\ l_df.produced =>
        /\ l_df.index = tickers
        /\ l_df.columns = <<"current_ratio", "quick_ratio",
                            "liabilities_to_equity", "interest_coverage_ratio">>
        /\ \A r \in 1..Len(tickers) : \A c \in 1..4 :
                l_df.data[r][c] =
                    FirstValue(LasSeries(liquidity_and_solvency_res[r],
                                         l_df.columns[c]),
                               LasTargetYear)
    /\ e_df.produced =>
        /\ e_df.index = tickers
        /\ e_df.columns = <<"PE">>
        /\ \A r \in 1..Len(tickers) :
                e_df.data[r] = Market[tickers[r]].info.forwardPE

\* the four tables of a batch of three companies or more
C8_Witness ==
    /\ pc = "done"
    /\ Len(tickers) >= 3
    /\ Len(b_df.index) = Len(tickers)
    /\ Len(c_df.index) = Len(tickers)
    /\ Len(l_df.index) = Len(tickers)
    /\ Len(e_df.index) = Len(tickers)
    /\ b_df.data[1][2] # b_df.data[1][3]

\* the three terms of the cash-conversion formula: a flow of the income
\* statement over the 2-period average of a balance item
CccTerms ==
    <<[flow |-> "Cost Of Revenue", balance |-> "Inventory"],
      [flow |-> "Total Revenue", balance |-> "Net Receivables"],
      [flow |-> "Cost Of Revenue", balance |-> "Accounts Payable"]>>

\* the 2-period average the formula uses for a balance item at a date
CccAverage(stock, balance, date) ==
    Reindexed(RollingMean(Reversed(Loc(stock.balance_sheet, balance))), date)

\* some 2-period average of the formula is zero at the date
CccZeroAverage(stock, date) ==
    \E t \in 1..3 : CccAverage(stock, CccTerms[t].balance, date) = Num(0)

\* what a term contributes at a date: 0 when its average is zero and its flow
\* is not, NaN when both are zero, and 365 / (flow / average) otherwise
CccContribution(stock, t, date) ==
    LET flow == Reindexed(Reversed(Loc(stock.financials, CccTerms[t].flow)), date)
    IN  IF CccAverage(stock, CccTerms[t].balance, date) = Num(0)
        THEN IF IsFinite(flow) /\ flow.n # 0 THEN Num(0) ELSE NaN
        ELSE Reindexed(TurnOverDays(stock, CccTerms[t].flow, CccTerms[t].balance),
                       date)

\* the results of the companies that have every line item of the formula
CccComputed ==
    {k \in 1..Len(cash_conversion_cycle_res) :
        /\ \A t \in 1..3 : HasItem(stocks[k].financials, CccTerms[t].flow)
        /\ \A t \in 1..3 : HasItem(stocks[k].balance_sheet, CccTerms[t].balance)}

\* the dates of the k-th company's balance sheet
BalanceDates(k) ==
    {stocks[k].balance_sheet.columns[i] :
        i \in 1..Len(stocks[k].balance_sheet.columns)}

CccZeroAverageDays ==
    [t \in Tickers |->
        LET stock == Market[t]
            dates == {stock.balance_sheet.columns[i] :
                        i \in 1..Len(stock.balance_sheet.columns)}
        IN  IF /\ \A c \in 1..3 : HasItem(stock.financials, CccTerms[c].flow)
               /\ \A c \in 1..3 : HasItem(stock.balance_sheet, CccTerms[c].balance)
            THEN {[date |-> d,
                   days |-> FSub(FAdd(CccContribution(stock, 1, d),
                                      CccContribution(stock, 2, d)),
                                 CccContribution(stock, 3, d))] :
                    d \in {e \in dates : CccZeroAverage(stock, e)}}
            ELSE {}]

OldestFirst(series) ==
    \A i \in 1..(Len(series) - 1) : series[i].date < series[i + 1].date

\* the stored value of a line item at a period end date
StoredAt(table, item, date) ==
    table.rows[item][CHOOSE i \in 1..Len(table.columns) : table.columns[i] = date]

\* the period end dates of the table before a date
Earlier(table, date) ==
    {d \in {table.columns[i] : i \in 1..Len(table.columns)} : d < date}

\* mean(value[t-1], value[t]) of a balance item, t-1 being the period that
\* chronologically precedes t; undefined (NaN) for the earliest period
ChronologicalMean(table, item, date) ==
    IF Earlier(table, date) = {}
    THEN NaN
    ELSE LET previous ==
                CHOOSE d \in Earlier(table, date) :
                    \A e \in Earlier(table, date) : e <= d
         IN  FDiv(FAdd(StoredAt(table, item, previous), StoredAt(table, item, date)),
                  Num(2))

\* the value of the series at the earliest of its periods in the year
EarliestOfYear(series, y) ==
    LET inYear == {d \in {series[i].date : i \in 1..Len(series)} :
                        YearOf(d) = ParseYear(y)}
    IN  Reindexed(series, CHOOSE d \in inYear : \A e \in inYear : d <= e)

\* every series of the k-th company's results is oldest first
C9_Chronological(k) ==
    /\ k <= Len(bank_for_buck_res) =>
        \A column \in {"profitability", "asset_turn_over", "financial_leverage",
                       "return_on_equity"} :
            OldestFirst(BfbSeries(bank_for_buck_res[k], column))
    /\ k <= Len(cash_conversion_cycle_res) =>
        OldestFirst(cash_conversion_cycle_res[k].cash_conversion_cycle.series)
    /\ k <= Len(liquidity_and_solvency_res) =>
        \A column \in {"current_ratio", "quick_ratio", "liabilities_to_equity",
                       "interest_coverage_ratio"} :
            OldestFirst(LasSeries(liquidity_and_solvency_res[k], column))

\* the rolling averages of the k-th company pair every period with the one
\* before it: its financial leverage is mean(Total Assets) over
\* mean(Total Stockholder Equity) of the two, undefined for the earliest period
C9_RollingMean(k) ==
    k <= Len(bank_for_buck_res) =>
        LET series == bank_for_buck_res[k].financial_leverage
            table  == stocks[k].balance_sheet
        IN  \A i \in 1..Len(series) :
                series[i].val =
                    FDiv(ChronologicalMean(table, "Total Assets", series[i].date),
                         ChronologicalMean(table, "Total Stockholder Equity",
                                           series[i].date))

\* the cells of the k-th company's rows hold the values of the earliest period
\* of the target year
C9_EarliestSelected(k) ==
    /\ (b_df.produced /\ k <= Len(b_df.index)) =>
        \A c \in 1..4 :
            b_df.data[k][c] =
                EarliestOfYear(BfbSeries(bank_for_buck_res[k], b_df.columns[c]),
                               BfbTargetYear)
    /\ (c_df.produced /\ k <= Len(c_df.index)) =>
        (~CccFails(k) =>
            c_df.data[k] =
                EarliestOfYear(cash_conversion_cycle_res[k].cash_conversion_cycle.series,
                               CccTargetYear))
    /\ (l_df.produced /\ k <= Len(l_df.index)) =>
        \A c \in 1..4 :
            l_df.data[k][c] =
                EarliestOfYear(LasSeries(liquidity_and_solvency_res[k],
                                         l_df.columns[c]),
                               LasTargetYear)

\* C9: whatever the storage order of the statement tables, every
\* ratio series is oldest first, the rolling average at a period is taken with
\* the chronologically previous period, and of several periods in the target
\* year the earliest is selected.
C9_OldestFirstWhateverStorage ==
    \A k \in 1..Len(tickers) :
        /\ C9_Chronological(k)
        /\ C9_RollingMean(k)
        /\ C9_EarliestSelected(k)

====
